---- MODULE Spec2Model ----
(***************************************************************************)
(* Model of the WinChipHead CH423 GPIO expander driver (src/ch423.c).      *)
(*                                                                         *)
(* The device structure (config, io_dir, last_output, lock), the chip's    *)
(* write-only registers as left by the last successful i2c transfer, and   *)
(* every gpio_chip callback, cut into steps at each access to state that   *)
(* another caller can touch: the unlocked fields config and io_dir, the    *)
(* mutex, and the i2c bus.                                                 *)
(***************************************************************************)
EXTENDS Integers, Sequences, FiniteSets, TLC

VARIABLES
    config,       \* dev->config
    io_dir,       \* dev->io_dir
    last_output,  \* dev->last_output
    lock,         \* dev->lock: 0 when free, else the holder
    registered,   \* devm_gpiochip_add_data() has exposed the lines
    hw,           \* chip registers: the byte last written with success per command
    pc,           \* where each context stands
    call,         \* the callback each context runs (or ran last) and its arguments
    cfg,          \* set_config(): the config parameter
    values,       \* write_outputs(): the values parameter
    ret,          \* the local ret of the running function: <<>> while uninitialized
    result,       \* what the callback returned: <<>> for none (void, or not yet)
    log,          \* the i2c transfers issued by the callback, in order
    failures,     \* how many transfers have failed so far
    solo,         \* TRUE when the callbacks are invoked one at a time
    calls         \* how many callbacks each concurrent caller has entered

vars == <<config, io_dir, last_output, lock, registered, hw,
          pc, call, cfg, values, ret, result, log, failures, solo, calls>>

----------------------------------------------------------------------------
(* Bounds of the model *)

NumCallers == 2
\* Transfers that fail in one run.
MaxFailures == 1
\* Callbacks each caller enters when the callers run concurrently.
MaxCalls == 2

Prober == 0
Callers == 1..NumCallers
Procs == {Prober} \cup Callers

\* The lines, values and batches the callers ask for: one line per byte of
\* the output shadow, and two batches (a whole byte, and bits of two bytes).
PinsUsed == {3, 8, 23}
\* The lines driven one at a time; the high byte is driven in batches.
PinsDriven == {3, 8}
Levels == {0, 1}
\* 0xFF0000/0xFF0000 turns the high byte on; 0xFF0108/0x00010A turns it off
\* and raises lines 3 and 8 (bit 1 of the bits is outside the mask).
Batches == { [mask |-> 16711680, bits |-> 16711680],
             [mask |-> 16711944, bits |-> 266] }
\* What the chip can answer to CMD_READ_IO.
ReadBytes == {8, 247}
\* i2c_transfer() returns the number of messages sent, or a negative errno.
TransportErrors == {-5}
\* The values an uninitialized int can be read as: a negative and a
\* non-negative one.
UninitValues == {-1, 0}

----------------------------------------------------------------------------
(* Program constants *)

CMD_SET_OC_L == 34
CMD_SET_OC_H == 35
CMD_CFG == 36
CMD_CFG_IO_OE == 1
CMD_CFG_OD_EN == 16
CMD_READ_IO == 38
CMD_SET_IO == 48

NGPIO == 24

GPIO_LINE_DIRECTION_OUT == 0
GPIO_LINE_DIRECTION_IN == 1

EINVAL == 22
ENOTSUPP == 524

DrivePushPull == "PIN_CONFIG_DRIVE_PUSH_PULL"
DriveOpenDrain == "PIN_CONFIG_DRIVE_OPEN_DRAIN"
BiasPullUp == "PIN_CONFIG_BIAS_PULL_UP"
PinConfigParams == {DrivePushPull, DriveOpenDrain, BiasPullUp}

----------------------------------------------------------------------------
(* Bit arithmetic on the NGPIO-bit output word and on the u8 registers *)

Bit(v, i) == (v \div (2 ^ i)) % 2

RECURSIVE BitAnd(_, _, _)
BitAnd(a, b, n) ==
    IF n = 0 THEN 0
    ELSE (a % 2) * (b % 2) + 2 * BitAnd(a \div 2, b \div 2, n - 1)

RECURSIVE BitOr(_, _, _)
BitOr(a, b, n) ==
    IF n = 0 THEN 0
    ELSE (IF a % 2 = 1 \/ b % 2 = 1 THEN 1 ELSE 0)
         + 2 * BitOr(a \div 2, b \div 2, n - 1)

BitNot(a, n) == (2 ^ n) - 1 - a

\* byte k of the 24-bit output word: (values >> 8k) & 0xff
ByteOf(v, k) == (v \div (256 ^ k)) % 256

\* ret < 0
Failed(r) == r < 0

----------------------------------------------------------------------------
(* The i2c bus and the chip *)

\* What i2c_transfer() can return for one message once f transfers failed.
TransferResults(f) ==
    {1} \cup (IF f < MaxFailures THEN TransportErrors ELSE {})

\* The count of failed transfers after one more returned r.
Counted(f, r) == IF Failed(r) THEN f + 1 ELSE f

\* Chip h after a write transfer of byte b under command c returned r.
ChipAfter(h, c, b, r) ==
    IF Failed(r) THEN h
    ELSE IF c = CMD_CFG THEN [h EXCEPT !.cfg = b]
    ELSE IF c = CMD_SET_IO THEN [h EXCEPT !.io = b]
    ELSE IF c = CMD_SET_OC_L THEN [h EXCEPT !.ocl = b]
    ELSE [h EXCEPT !.och = b]

Entry(c, b, r) == [cmd |-> c, param |-> b, ret |-> r]

\* A callback and its arguments; dir is the io_dir that direction_output
\* read at line 220.
NoCall == [op |-> "none", offset |-> 0, value |-> 0, mask |-> 0, bits |-> 0,
           param |-> DrivePushPull, dir |-> GPIO_LINE_DIRECTION_OUT]

----------------------------------------------------------------------------
(* Initial state: ch423_probe() entered, the structure zeroed by            *)
(* devm_kzalloc, the mutex initialised; the chip as after power-up.        *)

Attach ==
    /\ config = 0
    /\ io_dir = 0
    /\ last_output = 0
    /\ lock = 0
    /\ registered = FALSE
    /\ hw = [cfg |-> 0, io |-> 0, ocl |-> 255, och |-> 255]
    /\ pc = [p \in Procs |-> IF p = Prober THEN "probe" ELSE "idle"]
    /\ call = [p \in Procs |-> IF p = Prober THEN [NoCall EXCEPT !.op = "probe"]
                               ELSE NoCall]
    /\ cfg = [p \in Procs |-> 0]
    /\ values = [p \in Procs |-> 0]
    /\ ret = [p \in Procs |-> <<>>]
    /\ result = [p \in Procs |-> <<>>]
    /\ log = [p \in Procs |-> <<>>]
    /\ failures = 0

\* Concurrent callers.
Init == Attach /\ solo = FALSE /\ calls = [p \in Procs |-> 0]

\* Callbacks invoked one at a time.
InitSeq == Attach /\ solo = TRUE /\ calls = [p \in Procs |-> 0]

\* Concurrent callers that each enter one callback.
InitOnce == Attach /\ solo = FALSE /\ calls = [p \in Procs |-> MaxCalls - 1]

NoneDone == \A q \in Procs : pc[q] # "done"

\* One callback at a time: a context steps only while every other is idle.
Alone(p) == \A q \in Procs \ {p} : pc[q] = "idle"

\* Context p stands at loc and may step. The record of a returned call is
\* dropped (Forget) before anything else runs.
At(p, loc) == pc[p] = loc /\ NoneDone /\ (solo => Alone(p))

\* A caller may enter a callback once the lines are exposed and its previous
\* callback has returned.
CanCall(p) ==
    /\ p \in Callers
    /\ registered
    /\ At(p, "idle")
    /\ solo \/ calls[p] < MaxCalls

\* Entering callback c.
Enter(p, c) ==
    /\ calls' = IF solo THEN calls ELSE [calls EXCEPT ![p] = @ + 1]
    /\ call' = [call EXCEPT ![p] = c]

\* Returning r from the callback: the context is "done" until Forget.
Return(p, r) ==
    /\ pc' = [pc EXCEPT ![p] = "done"]
    /\ result' = [result EXCEPT ![p] = r]

----------------------------------------------------------------------------
(* ch423_gpio_get_direction *)

ch423_gpio_get_direction(offset) ==
    IF offset >= 8 THEN GPIO_LINE_DIRECTION_OUT ELSE io_dir

----------------------------------------------------------------------------
(* ch423_gpio_get: one read transfer, no lock *)

\* line 98
GetValue(param, offset) == Bit(param, offset) % 2

ch423_gpio_get(p) ==
    /\ CanCall(p)
    /\ \E offset \in PinsUsed, r \in TransferResults(failures), param \in ReadBytes :
          /\ Enter(p, [NoCall EXCEPT !.op = "get", !.offset = offset])
          /\ log' = [log EXCEPT ![p] =
                        << Entry(CMD_READ_IO, IF Failed(r) THEN 0 ELSE param, r) >>]
          /\ Return(p, IF Failed(r) THEN <<r>> ELSE << GetValue(param, offset) >>)
          /\ failures' = Counted(failures, r)
    /\ UNCHANGED <<config, io_dir, last_output, lock, registered, hw,
                   cfg, values, ret, solo>>

----------------------------------------------------------------------------
(* write_outputs.  last_output and the OC registers are touched only by the  *)
(* holder of the lock (or by probe, before the lines are exposed), so the    *)
(* steps are cut only where io_dir is read and where CMD_SET_IO is sent.     *)

\* The first block without the direction test of line 113.
NeedIOAnyDirection(dir, vals, last) == ByteOf(vals, 0) # ByteOf(last, 0)

\* lines 113-114: the bidirectional byte is written only in output mode
NeedIO(dir, vals, last) ==
    /\ dir = GPIO_LINE_DIRECTION_OUT
    /\ ByteOf(vals, 0) # ByteOf(last, 0)

\* lines 122 and 130
NeedByte(vals, last, k) == ByteOf(vals, k) # ByteOf(last, k)

\* Where write_outputs(values) stands after the test of its first block.
WriteOutputsFrom(dir, vals, last) ==
    IF NeedIO(dir, vals, last) THEN "wo_io_xfer" ELSE "wo_oc"

\* What the callback returns when write_outputs returned r: set and
\* set_multiple are void, direction_output returns 0 (line 230), probe
\* returns the error, or adds the gpio chip (lines 303-306).
OutputsResult(c, r) ==
    IF c.op = "probe" THEN <<r>>
    ELSE IF c.op = "direction_output" THEN <<0>>
    ELSE <<>>

\* A caller that leaves without mutex_unlock when write_outputs failed.
OutputsReturnKeepsLock(p, r) ==
    /\ ret' = [ret EXCEPT ![p] = <<r>>]
    /\ lock' = IF call[p].op = "probe" \/ Failed(r) THEN lock ELSE 0
    /\ registered' = IF call[p].op = "probe" THEN (r = 0) ELSE registered
    /\ Return(p, OutputsResult(call[p], r))

\* write_outputs returns r to its caller, which unlocks (lines 157, 173) or,
\* in probe, exposes the lines when r is 0, and returns.
OutputsReturn(p, r) ==
    /\ ret' = [ret EXCEPT ![p] = <<r>>]
    /\ lock' = IF call[p].op = "probe" THEN lock ELSE 0
    /\ registered' = IF call[p].op = "probe" THEN (r = 0) ELSE registered
    /\ Return(p, OutputsResult(call[p], r))

\* lines 115-119
wo_io_xfer(p) ==
    /\ At(p, "wo_io_xfer")
    /\ \E r \in TransferResults(failures) :
          /\ hw' = ChipAfter(hw, CMD_SET_IO, ByteOf(values[p], 0), r)
          /\ failures' = Counted(failures, r)
          /\ log' = [log EXCEPT ![p] = Append(@, Entry(CMD_SET_IO, ByteOf(values[p], 0), r))]
          /\ IF Failed(r)
             THEN OutputsReturn(p, r)
             ELSE /\ ret' = [ret EXCEPT ![p] = <<r>>]
                  /\ pc' = [pc EXCEPT ![p] = "wo_oc"]
                  /\ UNCHANGED <<lock, registered, result>>
    /\ UNCHANGED <<config, io_dir, last_output, call, cfg, values, solo, calls>>

\* line 134 reads ret, which line 133 did not assign: the value left by an
\* earlier transfer of this call, or any value when there was none.
RetRead(r) == IF r = <<>> THEN UninitValues ELSE {r[1]}

\* lines 130-140, entered with ret = r, the chip h, f failed transfers and
\* the transfers lg: the outcomes <<return value, last_output, chip,
\* failures, transfers>>.
HighBlock(vals, last, r, h, f, lg) ==
    IF NeedByte(vals, last, 2)
    THEN { << IF Failed(seen) THEN seen ELSE 0,
              IF Failed(seen) THEN last ELSE vals,
              ChipAfter(h, CMD_SET_OC_H, ByteOf(vals, 2), t),
              Counted(f, t),
              Append(lg, Entry(CMD_SET_OC_H, ByteOf(vals, 2), t)) >> :
              t \in TransferResults(f), seen \in RetRead(r) }
    ELSE { << 0, vals, h, f, lg >> }

\* lines 122-140: the same outcomes, from the second block on.
LowBlock(vals, last, r, h, f, lg) ==
    IF NeedByte(vals, last, 1)
    THEN UNION { IF Failed(t)
                 THEN { << t, last, h, Counted(f, t),
                           Append(lg, Entry(CMD_SET_OC_L, ByteOf(vals, 1), t)) >> }
                 ELSE HighBlock(vals, last, <<t>>,
                                ChipAfter(h, CMD_SET_OC_L, ByteOf(vals, 1), t), f,
                                Append(lg, Entry(CMD_SET_OC_L, ByteOf(vals, 1), t))) :
                 t \in TransferResults(f) }
    ELSE HighBlock(vals, last, r, h, f, lg)

\* lines 122-140 and the return to the caller
wo_oc(p) ==
    /\ At(p, "wo_oc")
    /\ \E o \in LowBlock(values[p], last_output, ret[p], hw, failures, log[p]) :
          /\ last_output' = o[2]
          /\ hw' = o[3]
          /\ failures' = o[4]
          /\ log' = [log EXCEPT ![p] = o[5]]
          /\ OutputsReturn(p, o[1])
    /\ UNCHANGED <<config, io_dir, call, cfg, values, solo, calls>>

----------------------------------------------------------------------------
(* ch423_gpio_set and ch423_gpio_set_multiple *)

\* lines 167-169
SetValues(last, offset, value) ==
    BitOr(BitAnd(last, BitNot(2 ^ offset, NGPIO), NGPIO),
          value * (2 ^ offset), NGPIO)

\* set_multiple that takes the masked bits alone, the rest of the word dropped.
SetMultipleValuesMaskedOnly(last, mask, bits) == BitAnd(bits, mask, NGPIO)

\* lines 151-153
SetMultipleValues(last, mask, bits) ==
    BitOr(BitAnd(last, BitNot(mask, NGPIO), NGPIO),
          BitAnd(bits, mask, NGPIO), NGPIO)

ch423_gpio_set(p) ==
    /\ CanCall(p)
    /\ \E offset \in PinsDriven, value \in Levels :
          Enter(p, [NoCall EXCEPT !.op = "set", !.offset = offset, !.value = value])
    /\ pc' = [pc EXCEPT ![p] = "set_lock"]
    /\ UNCHANGED <<config, io_dir, last_output, lock, registered, hw,
                   cfg, values, ret, result, log, failures, solo>>

ch423_gpio_set_multiple(p) ==
    /\ CanCall(p)
    /\ \E b \in Batches :
          Enter(p, [NoCall EXCEPT !.op = "set_multiple", !.mask = b.mask, !.bits = b.bits])
    /\ pc' = [pc EXCEPT ![p] = "set_lock"]
    /\ UNCHANGED <<config, io_dir, last_output, lock, registered, hw,
                   cfg, values, ret, result, log, failures, solo>>

\* The word the callback asks write_outputs for.
Desired(c, last) ==
    IF c.op = "set_multiple"
    THEN SetMultipleValues(last, c.mask, c.bits)
    ELSE SetValues(last, c.offset, c.value)

\* mutex_lock, the computation of values (lines 149-153, 165-169) and the
\* test of the first block of write_outputs (lines 113-114)
set_lock(p) ==
    /\ At(p, "set_lock")
    /\ lock = 0
    /\ lock' = p
    /\ values' = [values EXCEPT ![p] = Desired(call[p], last_output)]
    /\ ret' = [ret EXCEPT ![p] = <<>>]
    /\ pc' = [pc EXCEPT ![p] =
                 WriteOutputsFrom(io_dir, Desired(call[p], last_output), last_output)]
    /\ UNCHANGED <<config, io_dir, last_output, registered, hw,
                   call, cfg, result, log, failures, solo, calls>>

----------------------------------------------------------------------------
(* set_config *)

\* set_config without the test of line 186: every call transfers.
ConfigUnchangedNever(p) == FALSE

\* line 186
ConfigUnchanged(p) == config = cfg[p]

\* lines 186-187
sc_check(p) ==
    /\ At(p, "sc_check")
    /\ IF ConfigUnchanged(p)
       THEN /\ ret' = [ret EXCEPT ![p] = <<0>>]
            /\ pc' = [pc EXCEPT ![p] = "sc_ret"]
       ELSE /\ pc' = [pc EXCEPT ![p] = "sc_xfer"]
            /\ UNCHANGED ret
    /\ UNCHANGED <<config, io_dir, last_output, lock, registered, hw,
                   call, cfg, values, result, log, failures, solo, calls>>

\* set_config without the test of line 190: the value is cached whatever the
\* transfer returned.
sc_xfer_unchecked(p) ==
    /\ At(p, "sc_xfer")
    /\ \E r \in TransferResults(failures) :
          /\ hw' = ChipAfter(hw, CMD_CFG, cfg[p], r)
          /\ failures' = Counted(failures, r)
          /\ log' = [log EXCEPT ![p] = Append(@, Entry(CMD_CFG, cfg[p], r))]
          /\ ret' = [ret EXCEPT ![p] = <<r>>]
          /\ pc' = [pc EXCEPT ![p] = "sc_commit"]
    /\ UNCHANGED <<config, io_dir, last_output, lock, registered,
                   call, cfg, values, result, solo, calls>>

\* lines 189-191
sc_xfer(p) ==
    /\ At(p, "sc_xfer")
    /\ \E r \in TransferResults(failures) :
          /\ hw' = ChipAfter(hw, CMD_CFG, cfg[p], r)
          /\ failures' = Counted(failures, r)
          /\ log' = [log EXCEPT ![p] = Append(@, Entry(CMD_CFG, cfg[p], r))]
          /\ ret' = [ret EXCEPT ![p] = <<r>>]
          /\ pc' = [pc EXCEPT ![p] = IF Failed(r) THEN "sc_ret" ELSE "sc_commit"]
    /\ UNCHANGED <<config, io_dir, last_output, lock, registered,
                   call, cfg, values, result, solo, calls>>

\* lines 193-195
sc_commit(p) ==
    /\ At(p, "sc_commit")
    /\ config' = cfg[p]
    /\ ret' = [ret EXCEPT ![p] = <<0>>]
    /\ pc' = [pc EXCEPT ![p] = "sc_ret"]
    /\ UNCHANGED <<io_dir, last_output, lock, registered, hw,
                   call, cfg, values, result, log, failures, solo, calls>>

----------------------------------------------------------------------------
(* ch423_gpio_direction_input *)

\* direction_input without the range test of line 204.
InputRefusedNever(offset) == FALSE

\* line 204
InputRefused(offset) == offset >= 8

\* line 207: the argument of set_config
InputConfig(c) == BitAnd(c, BitNot(CMD_CFG_IO_OE, 8), 8)

\* lines 204-207
ch423_gpio_direction_input(p) ==
    /\ CanCall(p)
    /\ \E offset \in PinsUsed :
          /\ Enter(p, [NoCall EXCEPT !.op = "direction_input", !.offset = offset])
          /\ IF InputRefused(offset)
             THEN /\ Return(p, << -EINVAL >>)
                  /\ UNCHANGED cfg
             ELSE /\ cfg' = [cfg EXCEPT ![p] = InputConfig(config)]
                  /\ pc' = [pc EXCEPT ![p] = "sc_check"]
                  /\ UNCHANGED result
    /\ UNCHANGED <<config, io_dir, last_output, lock, registered, hw,
                   values, ret, log, failures, solo>>

\* direction_input that records the input direction without the test of
\* line 208.
di_ret_unchecked(p) ==
    /\ At(p, "sc_ret")
    /\ call[p].op = "direction_input"
    /\ io_dir' = GPIO_LINE_DIRECTION_IN
    /\ Return(p, ret[p])
    /\ UNCHANGED <<config, last_output, lock, registered, hw,
                   call, cfg, values, ret, log, failures, solo, calls>>

\* lines 208-211
di_ret(p) ==
    /\ At(p, "sc_ret")
    /\ call[p].op = "direction_input"
    /\ io_dir' = IF ret[p][1] = 0 THEN GPIO_LINE_DIRECTION_IN ELSE io_dir
    /\ Return(p, ret[p])
    /\ UNCHANGED <<config, last_output, lock, registered, hw,
                   call, cfg, values, ret, log, failures, solo, calls>>

----------------------------------------------------------------------------
(* ch423_gpio_direction_output *)

\* line 220
ch423_gpio_direction_output(p) ==
    /\ CanCall(p)
    /\ \E offset \in PinsDriven, value \in Levels :
          /\ Enter(p, [NoCall EXCEPT !.op = "direction_output",
                                     !.offset = offset, !.value = value,
                                     !.dir = io_dir])
          /\ pc' = [pc EXCEPT ![p] =
                       IF offset < 8 /\ io_dir # GPIO_LINE_DIRECTION_OUT
                       THEN "do_cfg" ELSE "set_lock"]
    /\ UNCHANGED <<config, io_dir, last_output, lock, registered, hw,
                   cfg, values, ret, result, log, failures, solo>>

\* line 221: the argument of set_config
do_cfg(p) ==
    /\ At(p, "do_cfg")
    /\ cfg' = [cfg EXCEPT ![p] = BitOr(config, CMD_CFG_IO_OE, 8)]
    /\ pc' = [pc EXCEPT ![p] = "sc_check"]
    /\ UNCHANGED <<config, io_dir, last_output, lock, registered, hw,
                   call, values, ret, result, log, failures, solo, calls>>

\* direction_output that does not record the new direction (line 225).
do_ret_keeps_dir(p) ==
    /\ At(p, "sc_ret")
    /\ call[p].op = "direction_output"
    /\ IF Failed(ret[p][1])
       THEN Return(p, ret[p])
       ELSE pc' = [pc EXCEPT ![p] = "set_lock"] /\ UNCHANGED result
    /\ UNCHANGED <<config, io_dir, last_output, lock, registered, hw,
                   call, cfg, values, ret, log, failures, solo, calls>>

\* lines 222-228
do_ret(p) ==
    /\ At(p, "sc_ret")
    /\ call[p].op = "direction_output"
    /\ IF Failed(ret[p][1])
       THEN /\ Return(p, ret[p])
            /\ UNCHANGED io_dir
       ELSE /\ io_dir' = GPIO_LINE_DIRECTION_OUT
            /\ pc' = [pc EXCEPT ![p] = "set_lock"]
            /\ UNCHANGED result
    /\ UNCHANGED <<config, last_output, lock, registered, hw,
                   call, cfg, values, ret, log, failures, solo, calls>>

----------------------------------------------------------------------------
(* ch423_gpio_set_config *)

\* set_config asked for the open-drain bit alone, the other bits dropped.
DriveConfigOverwrite(c, param) ==
    IF param = DriveOpenDrain THEN CMD_CFG_OD_EN ELSE 0

\* lines 243-246: the argument of set_config
DriveConfig(c, param) ==
    IF param = DriveOpenDrain
    THEN BitOr(c, CMD_CFG_OD_EN, 8)
    ELSE BitAnd(c, BitNot(CMD_CFG_OD_EN, 8), 8)

\* lines 238-248
ch423_gpio_set_config(p) ==
    /\ CanCall(p)
    /\ \E offset \in PinsUsed, param \in PinConfigParams :
          /\ Enter(p, [NoCall EXCEPT !.op = "set_config",
                                     !.offset = offset, !.param = param])
          /\ IF offset < 8 \/ param \notin {DriveOpenDrain, DrivePushPull}
             THEN /\ Return(p, << -ENOTSUPP >>)
                  /\ UNCHANGED cfg
             ELSE /\ cfg' = [cfg EXCEPT ![p] = DriveConfig(config, param)]
                  /\ pc' = [pc EXCEPT ![p] = "sc_check"]
                  /\ UNCHANGED result
    /\ UNCHANGED <<config, io_dir, last_output, lock, registered, hw,
                   values, ret, log, failures, solo>>

\* line 250
gc_ret(p) ==
    /\ At(p, "sc_ret")
    /\ call[p].op = "set_config"
    /\ Return(p, ret[p])
    /\ UNCHANGED <<config, io_dir, last_output, lock, registered, hw,
                   call, cfg, values, ret, log, failures, solo, calls>>

----------------------------------------------------------------------------
(* ch423_probe *)

\* lines 295-297
probe_config(p) ==
    /\ p = Prober
    /\ At(p, "probe")
    /\ io_dir' = GPIO_LINE_DIRECTION_IN
    /\ config' = 255
    /\ cfg' = [cfg EXCEPT ![p] = 0]
    /\ pc' = [pc EXCEPT ![p] = "sc_check"]
    /\ UNCHANGED <<last_output, lock, registered, hw,
                   call, values, ret, result, log, failures, solo, calls>>

\* lines 298-302, and the test of the first block of write_outputs
probe_outputs(p) ==
    /\ At(p, "sc_ret")
    /\ call[p].op = "probe"
    /\ IF ret[p][1] # 0
       THEN /\ Return(p, ret[p])
            /\ UNCHANGED <<last_output, values, ret>>
       ELSE /\ last_output' = 16776960
            /\ values' = [values EXCEPT ![p] = 0]
            /\ ret' = [ret EXCEPT ![p] = <<>>]
            /\ pc' = [pc EXCEPT ![p] = WriteOutputsFrom(io_dir, 0, 16776960)]
            /\ UNCHANGED result
    /\ UNCHANGED <<config, io_dir, lock, registered, hw, call, cfg, log,
                   failures, solo, calls>>

----------------------------------------------------------------------------

\* The record of a returned call is observed and dropped before anything
\* else runs.
Forget(p) ==
    /\ pc[p] = "done"
    /\ pc' = [pc EXCEPT ![p] = "idle"]
    /\ call' = [call EXCEPT ![p] = NoCall]
    /\ cfg' = [cfg EXCEPT ![p] = 0]
    /\ values' = [values EXCEPT ![p] = 0]
    /\ ret' = [ret EXCEPT ![p] = <<>>]
    /\ result' = [result EXCEPT ![p] = <<>>]
    /\ log' = [log EXCEPT ![p] = <<>>]
    /\ UNCHANGED <<config, io_dir, last_output, lock, registered, hw,
                   failures, solo, calls>>

Step(p) ==
    \/ probe_config(p)
    \/ probe_outputs(p)
    \/ ch423_gpio_get(p)
    \/ ch423_gpio_set(p)
    \/ ch423_gpio_set_multiple(p)
    \/ set_lock(p)
    \/ wo_io_xfer(p)
    \/ wo_oc(p)
    \/ ch423_gpio_direction_input(p)
    \/ di_ret(p)
    \/ ch423_gpio_direction_output(p)
    \/ do_cfg(p)
    \/ do_ret(p)
    \/ ch423_gpio_set_config(p)
    \/ gc_ret(p)
    \/ sc_check(p)
    \/ sc_xfer(p)
    \/ sc_commit(p)
    \/ Forget(p)

Next == \E p \in Procs : Step(p)

Spec == Init /\ [][Next]_vars

SpecSeq == InitSeq /\ [][Next]_vars

\* Concurrent callers under a fair scheduler: a context that can step (its
\* transfer returns, the lock is free) eventually steps.
Fairness == \A p \in Procs : WF_vars(Step(p))

SpecFair == InitOnce /\ [][Next]_vars /\ Fairness

----------------------------------------------------------------------------
(* Vocabulary of the properties *)

OutputCmds == {CMD_SET_IO, CMD_SET_OC_L, CMD_SET_OC_H}

\* The command that carries byte k of the output word.
CmdOfByte(k) == IF k = 0 THEN CMD_SET_IO ELSE IF k = 1 THEN CMD_SET_OC_L ELSE CMD_SET_OC_H

\* The transfers of lg under command c.
TxOf(lg, c) == SelectSeq(lg, LAMBDA e : e.cmd = c)

Sent(lg, c) == Len(TxOf(lg, c)) > 0
SentOk(lg, c) == \E i \in DOMAIN lg : lg[i].cmd = c /\ ~Failed(lg[i].ret)
SentFailed(lg, c) == \E i \in DOMAIN lg : lg[i].cmd = c /\ Failed(lg[i].ret)
AnyFailed(lg) == \E i \in DOMAIN lg : Failed(lg[i].ret)

\* Context p takes the step that makes write_outputs return.
OutputsReturning(p) == pc[p] \in {"wo_io_xfer", "wo_oc"} /\ pc'[p] = "done"

----------------------------------------------------------------------------
(* C1: set_config(desired) returns 0 without a transfer when desired is the  *)
(* cached config; otherwise it issues exactly one CMD_CFG write of desired,  *)
(* and dev->config becomes desired only when that transfer succeeds (on      *)
(* failure the config is unchanged and the error is returned). So a second   *)
(* call with the value a first call committed issues no transfer.            *)

C1_Returned ==
    \A p \in Procs : pc[p] = "sc_ret" =>
        LET tx == TxOf(log[p], CMD_CFG) IN
        /\ Len(tx) <= 1
        /\ Len(log[p]) = Len(tx)
        /\ Len(tx) = 0 => ret[p] = <<0>> /\ config = cfg[p]
        /\ Len(tx) = 1 =>
              /\ tx[1].param = cfg[p]
              /\ IF Failed(tx[1].ret)
                 THEN ret[p] = << tx[1].ret >> /\ config # cfg[p]
                 ELSE ret[p] = <<0>> /\ config = cfg[p] /\ hw.cfg = cfg[p]

C1_Step ==
    \A p \in Procs :
        /\ (pc[p] = "sc_check" /\ pc'[p] # "sc_check") =>
              IF config = cfg[p]
              THEN pc'[p] = "sc_ret" /\ log' = log /\ hw' = hw /\ config' = config
              ELSE pc'[p] = "sc_xfer" /\ log' = log /\ hw' = hw /\ config' = config
        /\ (pc[p] = "sc_xfer" /\ pc'[p] # "sc_xfer") =>
              /\ Len(log'[p]) = Len(log[p]) + 1
              /\ config' = config
              /\ pc'[p] = "sc_commit" <=> ~Failed(log'[p][Len(log'[p])].ret)
        /\ (pc[p] = "sc_commit" /\ pc'[p] # "sc_commit") =>
              config' = cfg[p] /\ log' = log

\* C1: set_config transfers nothing when the cache already holds the value,
\* and otherwise makes one CMD_CFG transfer and caches the value only when the
\* transfer succeeded, returning the transfer's error when it failed.
C1_WriteConfig == []C1_Returned /\ [][C1_Step]_vars

\* A second set_config of open drain: the chip holds it from an earlier
\* transfer, and this call returned without one.
C1_Witness ==
    \E p \in Callers :
        /\ pc[p] = "sc_ret" /\ call[p].op = "set_config"
        /\ call[p].param = DriveOpenDrain
        /\ log[p] = <<>> /\ cfg[p] = CMD_CFG_OD_EN /\ hw.cfg = CMD_CFG_OD_EN

----------------------------------------------------------------------------
(* C2, as stated: when write_outputs returns, a transfer for byte k has been *)
(* issued if and only if byte k of the desired word differs from byte k of   *)
(* the cached word.                                                          *)

C2_DiffMinimalityAsStated ==
    [][\A p \in Procs : OutputsReturning(p) =>
          \A k \in 0..2 :
              Sent(log'[p], CmdOfByte(k)) <=> NeedByte(values[p], last_output, k)]_vars

\* An earlier byte's transfer of this call failed.
EarlierFailed(lg, k) == \E j \in 0..(k - 1) : SentFailed(lg, CmdOfByte(j))

(* C2, amended: a transfer for byte k is issued if and only if byte k        *)
(* differs from the cached byte, no transfer of an earlier byte of the same  *)
(* call failed and, for byte 0, the group direction is output; at most one   *)
(* transfer is issued per byte.                                              *)

C2_DiffMinimality ==
    [][\A p \in Procs : OutputsReturning(p) =>
          \A k \in 0..2 :
              /\ Len(TxOf(log'[p], CmdOfByte(k))) <= 1
              /\ Sent(log'[p], CmdOfByte(k)) <=>
                    /\ NeedByte(values[p], last_output, k)
                    /\ ~EarlierFailed(log'[p], k)
                    /\ k = 0 => io_dir = GPIO_LINE_DIRECTION_OUT]_vars

\* The bidirectional byte differs from the cached one, the group is input,
\* and write_outputs has passed its first block without a transfer.
C2_Witness ==
    \E p \in Callers :
        /\ pc[p] = "wo_oc"
        /\ NeedByte(values[p], last_output, 0)
        /\ io_dir = GPIO_LINE_DIRECTION_IN
        /\ ~Sent(log[p], CMD_SET_IO)

----------------------------------------------------------------------------
(* C3: when write_outputs returns, each byte whose transfer succeeded has    *)
(* its new value in last_output and each byte whose transfer failed has its  *)
(* old one; with the CMD_SET_OC_L transfer succeeding and the CMD_SET_OC_H   *)
(* transfer failing, last_output holds the new low byte and the old high     *)
(* byte, and write_outputs returns the failure.                              *)

C3_PartialFailureIsolation ==
    [][\A p \in Procs : OutputsReturning(p) =>
          /\ \A k \in 0..2 :
                /\ SentOk(log'[p], CmdOfByte(k)) =>
                      ByteOf(last_output', k) = ByteOf(values[p], k)
                /\ SentFailed(log'[p], CmdOfByte(k)) =>
                      ByteOf(last_output', k) = ByteOf(last_output, k)
          /\ (\E k \in 0..2 : SentFailed(log'[p], CmdOfByte(k))) =>
                Failed(ret'[p][1])]_vars

----------------------------------------------------------------------------
(* C4: write_outputs returns 0 only if every transfer it attempted           *)
(* succeeded; when one failed, it returns the error of the first that failed. *)

\* The result of the first failed output transfer of lg.
FirstError(lg) ==
    LET bad == SelectSeq(lg, LAMBDA e : e.cmd \in OutputCmds /\ Failed(e.ret))
    IN  bad[1].ret

\* C4: when a transfer of write_outputs failed, the value returned is the
\* error of the first transfer that failed.
C4_FirstErrorReturned ==
    [][\A p \in Procs : OutputsReturning(p) =>
          ((\E k \in 0..2 : SentFailed(log'[p], CmdOfByte(k))) =>
              ret'[p] = << FirstError(log'[p]) >>)]_vars

----------------------------------------------------------------------------
(* C5: whenever the lines are exposed and no callback is in progress, the    *)
(* cached config is the last config byte written with success under CMD_CFG, *)
(* and bytes 1 and 2 of last_output are the last bytes written with success  *)
(* under CMD_SET_OC_L and CMD_SET_OC_H.                                      *)

Quiescent == \A p \in Procs : pc[p] \in {"idle", "done"}

\* C5: with the lines exposed and no callback in progress, config and bytes
\* 1 and 2 of last_output equal what the chip holds.
C5_CacheCoherence ==
    (registered /\ Quiescent) =>
        /\ config = hw.cfg
        /\ ByteOf(last_output, 1) = hw.ocl
        /\ ByteOf(last_output, 2) = hw.och

----------------------------------------------------------------------------
(* C6: the callbacks that read, modify and write the cache are serialized:   *)
(* no two callers are at once between their read of the cache and their      *)
(* update of it (or the bus transfer in between).                            *)

\* Caller p has read config or last_output for its update and has not yet
\* written it back.
InUpdate(p) == pc[p] \in {"sc_check", "sc_xfer", "sc_commit", "wo_io_xfer", "wo_oc"}

\* C6: no two callers are inside a read-modify-write of the cache at once.
C6_Serialized ==
    \A p, q \in Callers : p # q => ~(InUpdate(p) /\ InUpdate(q))

----------------------------------------------------------------------------
(* C7, as stated: direction_output(pin < 8, v) entered with the group input, *)
(* all its transfers succeeding, issues one CMD_CFG write with IO_OE set and *)
(* then the CMD_SET_IO write, and get_direction then reports output for      *)
(* lines 0..7.                                                               *)

\* Caller p returns from a direction_output of a bidirectional line that
\* found the group input, and none of its transfers failed.
CouplingReturns(p) ==
    /\ OutputsReturning(p)
    /\ call[p].op = "direction_output"
    /\ call[p].offset < 8
    /\ call[p].dir = GPIO_LINE_DIRECTION_IN
    /\ ~AnyFailed(log'[p])

AllOutput == \A pin \in 0..7 : ch423_gpio_get_direction(pin) = GPIO_LINE_DIRECTION_OUT

\* C7, as stated: one CMD_CFG write with IO_OE, then the CMD_SET_IO write, and
\* lines 0..7 all report output.
C7_GroupCouplingAsStated ==
    [][\A p \in Callers : CouplingReturns(p) =>
          /\ Len(log'[p]) = 2
          /\ log'[p][1].cmd = CMD_CFG /\ Bit(log'[p][1].param, 0) = 1
          /\ log'[p][2].cmd = CMD_SET_IO
          /\ AllOutput']_vars

(* C7, amended: it issues exactly one CMD_CFG write with IO_OE set, followed *)
(* by one CMD_SET_IO write of the new low byte exactly when that byte        *)
(* differs from the cached one (no output transfer otherwise), and           *)
(* get_direction then reports output for lines 0..7.                         *)

C7_GroupCoupling ==
    [][\A p \in Callers : CouplingReturns(p) =>
          /\ log'[p][1].cmd = CMD_CFG /\ Bit(log'[p][1].param, 0) = 1
          /\ Len(TxOf(log'[p], CMD_CFG)) = 1
          /\ IF ByteOf(values[p], 0) # ByteOf(last_output, 0)
             THEN /\ Len(log'[p]) = 2
                  /\ log'[p][2].cmd = CMD_SET_IO
                  /\ log'[p][2].param = ByteOf(values[p], 0)
             ELSE Len(log'[p]) = 1
          /\ AllOutput']_vars

\* direction_output(3, 1) has returned: a config write, then the output write.
C7_Witness ==
    \E p \in Callers :
        /\ pc[p] = "done" /\ call[p].op = "direction_output"
        /\ call[p].offset = 3 /\ call[p].value = 1
        /\ call[p].dir = GPIO_LINE_DIRECTION_IN
        /\ Len(log[p]) = 2
        /\ log[p][1] = Entry(CMD_CFG, CMD_CFG_IO_OE, 1)
        /\ log[p][2] = Entry(CMD_SET_IO, 8, 1)
        /\ AllOutput

----------------------------------------------------------------------------
(* C8: get(pin) for pin < 8 issues one CMD_READ_IO read and returns bit pin  *)
(* of the byte read, or the transport error; for pin >= 8 it fails as        *)
(* unsupported instead of returning a value.                                 *)

C8_Read ==
    \A p \in Callers : (pc[p] = "done" /\ call[p].op = "get") =>
        IF call[p].offset < 8
        THEN /\ Len(log[p]) = 1 /\ log[p][1].cmd = CMD_READ_IO
             /\ result[p] = IF Failed(log[p][1].ret) THEN << log[p][1].ret >>
                            ELSE << Bit(log[p][1].param, call[p].offset) >>
        ELSE result[p] = << -ENOTSUPP >>

----------------------------------------------------------------------------
(* C9: a callback during which a transfer failed reports a failure to its    *)
(* caller.                                                                   *)

C9_ErrorsReported ==
    \A p \in Callers : (pc[p] = "done" /\ AnyFailed(log[p])) =>
        (result[p] # <<>> /\ Failed(result[p][1]))

----------------------------------------------------------------------------
(* C10: direction_input(pin >= 8) returns -EINVAL with no transfer and no    *)
(* change of config, io_dir, last_output or the chip; for pin < 8 it asks    *)
(* set_config for the config with only IO_OE cleared, and io_dir becomes     *)
(* input exactly when set_config returned 0.                                 *)

C10_Returned ==
    \A p \in Callers : (pc[p] = "done" /\ call[p].op = "direction_input") =>
        IF call[p].offset >= 8
        THEN result[p] = << -EINVAL >> /\ log[p] = <<>>
        ELSE /\ Len(log[p]) <= 1
             /\ \A i \in DOMAIN log[p] :
                   log[p][i].cmd = CMD_CFG /\ log[p][i].param = cfg[p]
             /\ result[p] = ret[p]
             /\ result[p] = <<0>> => io_dir = GPIO_LINE_DIRECTION_IN /\ config = cfg[p]

C10_Step ==
    \A p \in Callers :
        /\ (pc[p] = "idle" /\ call'[p].op = "direction_input") =>
              /\ UNCHANGED <<config, io_dir, last_output, hw, log>>
              /\ IF call'[p].offset >= 8
                 THEN pc'[p] = "done"
                 ELSE /\ pc'[p] = "sc_check"
                      /\ cfg'[p] = config - Bit(config, 0)
        /\ (call[p].op = "direction_input" /\ pc[p] # "done" /\ pc'[p] # pc[p]) =>
              /\ last_output' = last_output
              /\ config' # config => pc[p] = "sc_commit" /\ config' = cfg[p]
              /\ pc[p] = "sc_ret" =>
                    io_dir' = IF ret[p] = <<0>> THEN GPIO_LINE_DIRECTION_IN ELSE io_dir
              /\ pc[p] # "sc_ret" => io_dir' = io_dir

\* C10: direction_input refuses lines 8..23 with -EINVAL and no effect, and
\* for lines 0..7 sets io_dir to input exactly when set_config returned 0.
C10_DirectionInput == []C10_Returned /\ [][C10_Step]_vars

\* direction_input(8) has been refused while the group is output.
C10_Witness ==
    \E p \in Callers :
        /\ pc[p] = "done" /\ call[p].op = "direction_input"
        /\ call[p].offset = 8 /\ result[p] = << -EINVAL >>
        /\ io_dir = GPIO_LINE_DIRECTION_OUT /\ config = CMD_CFG_IO_OE

----------------------------------------------------------------------------
(* C11: set_config(pin < 8) returns -ENOTSUPP with no transfer and no change *)
(* of config, io_dir, last_output or the chip; for pin >= 8 and open drain   *)
(* or push-pull it asks set_config for the cached config with only bit 4 set *)
(* or cleared, whichever pin is named, and io_dir and last_output are left   *)
(* alone.                                                                    *)

\* Config c with only the open-drain bit forced to what param asks.
C11_Expected(c, param) ==
    c - CMD_CFG_OD_EN * Bit(c, 4)
      + (IF param = DriveOpenDrain THEN CMD_CFG_OD_EN ELSE 0)

C11_Drives(c) == c.param \in {DriveOpenDrain, DrivePushPull}

C11_Returned ==
    \A p \in Callers : (pc[p] = "done" /\ call[p].op = "set_config") =>
        IF call[p].offset < 8
        THEN result[p] = << -ENOTSUPP >> /\ log[p] = <<>>
        ELSE C11_Drives(call[p]) =>
             /\ Len(log[p]) <= 1
             /\ \A i \in DOMAIN log[p] :
                   log[p][i].cmd = CMD_CFG /\ log[p][i].param = cfg[p]
             /\ result[p] = ret[p]
             /\ result[p] = <<0>> =>
                   /\ config = cfg[p]
                   /\ Bit(config, 4) = (IF call[p].param = DriveOpenDrain THEN 1 ELSE 0)

C11_Step ==
    \A p \in Callers :
        /\ (pc[p] = "idle" /\ call'[p].op = "set_config") =>
              /\ UNCHANGED <<config, io_dir, last_output, hw, log>>
              /\ IF call'[p].offset < 8
                 THEN pc'[p] = "done"
                 ELSE C11_Drives(call'[p]) =>
                      /\ pc'[p] = "sc_check"
                      /\ cfg'[p] = C11_Expected(config, call'[p].param)
        /\ (call[p].op = "set_config" /\ pc[p] # "done" /\ pc'[p] # pc[p]) =>
              /\ last_output' = last_output
              /\ io_dir' = io_dir
              /\ config' # config => pc[p] = "sc_commit" /\ config' = cfg[p]

\* C11: set_config refuses lines 0..7 with no effect and, for lines 8..23,
\* changes only the open-drain bit of the config, whichever line is named.
C11_DriveMode == []C11_Returned /\ [][C11_Step]_vars

\* Open drain has been set through line 23 while the group is output: the
\* IO_OE bit of the config is kept.
C11_Witness ==
    \E p \in Callers :
        /\ pc[p] = "done" /\ call[p].op = "set_config"
        /\ call[p].offset = 23 /\ call[p].param = DriveOpenDrain
        /\ result[p] = <<0>> /\ Len(log[p]) = 1
        /\ config = CMD_CFG_IO_OE + CMD_CFG_OD_EN
        /\ hw.cfg = config
        /\ io_dir = GPIO_LINE_DIRECTION_OUT

----------------------------------------------------------------------------
(* C12: set_multiple(mask, bits) asks write_outputs once for the cached word *)
(* with the masked bits replaced; at most one transfer is issued per byte,   *)
(* and only for a byte that changes; mask = bits = 0xFF0000 on a cached word *)
(* of 0 issues the CMD_SET_OC_H transfer alone; the cached bits outside the  *)
(* mask keep their value.                                                    *)

C12_AtomicBatch ==
    [][\A p \in Callers : (OutputsReturning(p) /\ call[p].op = "set_multiple") =>
          /\ \A i \in 0..(NGPIO - 1) :
                Bit(values[p], i) = IF Bit(call[p].mask, i) = 1
                                    THEN Bit(call[p].bits, i)
                                    ELSE Bit(last_output, i)
          /\ \A k \in 0..2 :
                /\ Len(TxOf(log'[p], CmdOfByte(k))) <= 1
                /\ Sent(log'[p], CmdOfByte(k)) => NeedByte(values[p], last_output, k)
          /\ \A i \in DOMAIN log'[p] : log'[p][i].cmd \in OutputCmds
          /\ (call[p].mask = 16711680 /\ call[p].bits = 16711680 /\ last_output = 0) =>
                /\ Len(log'[p]) = 1
                /\ log'[p][1].cmd = CMD_SET_OC_H
                /\ log'[p][1].param = 255
          /\ \A i \in 0..(NGPIO - 1) :
                Bit(call[p].mask, i) = 0 => Bit(last_output', i) = Bit(last_output, i)]_vars

\* set_multiple(0xFF0000, 0xFF0000) has returned after the one transfer of
\* the high byte, the two other bytes of the cached word being 0.
C12_Witness ==
    \E p \in Callers :
        /\ pc[p] = "done" /\ call[p].op = "set_multiple"
        /\ call[p].mask = 16711680 /\ call[p].bits = 16711680
        /\ log[p] = << Entry(CMD_SET_OC_H, 255, 1) >>
        /\ last_output = 16711680

----------------------------------------------------------------------------
(* C13: the lines are exposed with the group input; afterwards io_dir goes   *)
(* from input to output only in a direction_output of a line below 8 whose   *)
(* CMD_CFG transfer succeeded, and from output to input only in a            *)
(* direction_input of a line below 8 that returns 0; nothing else changes    *)
(* it, and get_direction reports output for lines 8..23 in every state.      *)

C13_OutputOnly ==
    \A pin \in 8..(NGPIO - 1) : ch423_gpio_get_direction(pin) = GPIO_LINE_DIRECTION_OUT

C13_Step ==
    /\ (~registered /\ registered') => io_dir' = GPIO_LINE_DIRECTION_IN
    /\ (registered /\ io_dir' # io_dir) =>
          \E p \in Callers :
              /\ pc[p] = "sc_ret" /\ pc'[p] # "sc_ret"
              /\ call[p].offset < 8
              /\ ret[p] = <<0>>
              /\ IF io_dir' = GPIO_LINE_DIRECTION_OUT
                 THEN /\ io_dir = GPIO_LINE_DIRECTION_IN
                      /\ call[p].op = "direction_output"
                      /\ SentOk(log[p], CMD_CFG)
                 ELSE /\ io_dir = GPIO_LINE_DIRECTION_OUT
                      /\ io_dir' = GPIO_LINE_DIRECTION_IN
                      /\ call[p].op = "direction_input"
                      /\ result'[p] = <<0>>

\* C13: the group direction starts as input and changes only through a
\* successful direction_output or direction_input of a line below 8.
C13_DirectionMachine == []C13_OutputOnly /\ [][C13_Step]_vars

\* direction_input(3) has brought the group back from output to input.
C13_Witness ==
    \E p \in Callers :
        /\ pc[p] = "done" /\ call[p].op = "direction_input" /\ call[p].offset = 3
        /\ result[p] = <<0>>
        /\ log[p] = << Entry(CMD_CFG, 0, 1) >>
        /\ io_dir = GPIO_LINE_DIRECTION_IN
        /\ hw.io # 0

----------------------------------------------------------------------------
(* C14: no CMD_SET_IO transfer reaches the chip while the config byte the    *)
(* chip last received has the IO_OE bit clear.                               *)

C14_OutputModeOnly ==
    [][\A p \in Procs :
          (/\ Len(log'[p]) = Len(log[p]) + 1
           /\ log'[p][Len(log'[p])].cmd = CMD_SET_IO
           /\ ~Failed(log'[p][Len(log'[p])].ret))
          => Bit(hw.cfg, 0) = 1]_vars

----------------------------------------------------------------------------
(* C15: a probe that exposes the lines has issued, in this order, CMD_CFG 0, *)
(* CMD_SET_OC_L 0 and CMD_SET_OC_H 0, all with success, and no CMD_SET_IO,   *)
(* and leaves config = 0, last_output = 0 and io_dir input; a probe during   *)
(* which a transfer failed returns the failure and exposes no line.          *)

C15_Attach ==
    (pc[Prober] = "done" /\ call[Prober].op = "probe") =>
        /\ registered =>
              /\ log[Prober] = << Entry(CMD_CFG, 0, 1),
                                  Entry(CMD_SET_OC_L, 0, 1),
                                  Entry(CMD_SET_OC_H, 0, 1) >>
              /\ config = 0
              /\ last_output = 0
              /\ io_dir = GPIO_LINE_DIRECTION_IN
        /\ AnyFailed(log[Prober]) =>
              /\ ~registered
              /\ result[Prober] # <<>> /\ Failed(result[Prober][1])

----------------------------------------------------------------------------
(* C16: when the CMD_CFG transfer of direction_input or direction_output of  *)
(* a line below 8 fails, the callback returns that error, config and io_dir  *)
(* keep their values, and direction_output issues no output transfer and     *)
(* leaves last_output unchanged.                                             *)

\* Caller p runs direction_input or direction_output on a line below 8.
C16_Directs(p) ==
    /\ call[p].op \in {"direction_input", "direction_output"}
    /\ call[p].offset < 8

C16_Returned ==
    \A p \in Callers : (pc[p] = "done" /\ C16_Directs(p) /\ SentFailed(log[p], CMD_CFG)) =>
        /\ Len(log[p]) = 1
        /\ result[p] = << log[p][1].ret >>

C16_Step ==
    \A p \in Callers : (C16_Directs(p) /\ pc'[p] # pc[p]) =>
        /\ pc[p] \in {"do_cfg", "sc_check"} =>
              UNCHANGED <<config, io_dir, last_output, hw, log>>
        /\ (pc[p] = "sc_xfer" /\ Failed(log'[p][Len(log'[p])].ret)) =>
              /\ UNCHANGED <<config, io_dir, last_output, hw>>
              /\ pc'[p] = "sc_ret"
              /\ ret'[p] = << log'[p][Len(log'[p])].ret >>
        /\ (pc[p] = "sc_ret" /\ Failed(ret[p][1])) =>
              /\ UNCHANGED <<config, io_dir, last_output, hw, log>>
              /\ pc'[p] = "done"
              /\ result'[p] = ret[p]

\* C16: a failed config transfer of direction_input or direction_output is
\* returned to the caller and changes neither the cache nor the outputs.
C16_ConfigFailure == []C16_Returned /\ [][C16_Step]_vars

\* direction_output(3, 1) has returned the error of its config transfer; the
\* group is still input.
C16_Witness ==
    \E p \in Callers :
        /\ pc[p] = "done" /\ call[p].op = "direction_output"
        /\ call[p].offset = 3 /\ call[p].value = 1
        /\ log[p] = << Entry(CMD_CFG, CMD_CFG_IO_OE, -5) >>
        /\ result[p] = << -5 >>
        /\ io_dir = GPIO_LINE_DIRECTION_IN /\ config = 0 /\ hw.cfg = 0

----------------------------------------------------------------------------
(* C17: while no transfer has failed, a direction_output(pin < 8, v) that    *)
(* returned 0 leaves bit pin of the byte the chip last received under        *)
(* CMD_SET_IO equal to v, and whenever the group is output and no callback   *)
(* is in progress that byte equals bits 0-7 of last_output.                  *)

C17_DrivenAsCached ==
    failures = 0 =>
        /\ \A p \in Callers :
              (/\ pc[p] = "done" /\ call[p].op = "direction_output"
               /\ call[p].offset < 8 /\ result[p] = <<0>>)
              => Bit(hw.io, call[p].offset) = call[p].value
        /\ (registered /\ Quiescent /\ io_dir = GPIO_LINE_DIRECTION_OUT) =>
              hw.io = ByteOf(last_output, 0)

----------------------------------------------------------------------------
(* C18: whenever the lines are exposed and no callback is in progress,       *)
(* io_dir is output if and only if the IO_OE bit of the cached config is     *)
(* set, and the cached config is the config byte the chip last received.     *)

C18_ConfigAgrees ==
    (registered /\ Quiescent) =>
        /\ (io_dir = GPIO_LINE_DIRECTION_OUT) <=> (Bit(config, 0) = 1)
        /\ config = hw.cfg

----------------------------------------------------------------------------
(* C19: while no transfer has failed, concurrent set and set_multiple calls  *)
(* on lines 8..23 lose no update: between a caller's read of last_output and *)
(* its return no other caller changes last_output or the chip's output-only  *)
(* bytes, and when the caller returns, last_output and the bytes the chip    *)
(* last received under CMD_SET_OC_L and CMD_SET_OC_H hold the caller's       *)
(* values on its lines and the former cached values on the others.           *)

C19_Mask(c) == IF c.op = "set" THEN 2 ^ c.offset ELSE c.mask
C19_Bits(c) == IF c.op = "set" THEN c.value * (2 ^ c.offset) ELSE c.bits

\* Caller p runs set or set_multiple on lines 8..23 only.
C19_Sets(p) ==
    /\ call[p].op \in {"set", "set_multiple"}
    /\ ByteOf(C19_Mask(call[p]), 0) = 0

\* The output-only bytes the chip last received, placed as in last_output.
C19_ChipWord(h) == h.ocl * 256 + h.och * 65536

C19_NoLostUpdate ==
    [][\A p \in Callers : (C19_Sets(p) /\ pc[p] \in {"wo_io_xfer", "wo_oc"}) =>
          /\ pc'[p] = pc[p] =>
                /\ last_output' = last_output
                /\ C19_ChipWord(hw') = C19_ChipWord(hw)
          /\ (OutputsReturning(p) /\ failures' = 0) =>
                \A i \in 8..(NGPIO - 1) :
                    IF Bit(C19_Mask(call[p]), i) = 1
                    THEN /\ Bit(last_output', i) = Bit(C19_Bits(call[p]), i)
                         /\ Bit(C19_ChipWord(hw'), i) = Bit(C19_Bits(call[p]), i)
                    ELSE Bit(last_output', i) = Bit(last_output, i)]_vars

----------------------------------------------------------------------------
(* C20: dev->lock is held only by a caller inside write_outputs and is       *)
(* released when it returns, so every set, set_multiple and direction_output *)
(* that has started eventually returns, not holding the lock, whether or not *)
(* a transfer failed.                                                        *)

\* Caller p runs a callback that takes the lock.
C20_Locks(p) == call[p].op \in {"set", "set_multiple", "direction_output"}

C20_Started(p) == C20_Locks(p) /\ pc[p] \notin {"idle", "done"}

C20_HeldInside ==
    /\ lock \in {0} \cup Callers
    /\ \A p \in Callers : lock = p <=> pc[p] \in {"wo_io_xfer", "wo_oc"}

\* C20: the lock is held exactly inside write_outputs, and every started
\* set, set_multiple and direction_output returns with the lock released.
C20_LockReleased ==
    /\ []C20_HeldInside
    /\ \A p \in Callers : C20_Started(p) ~> (pc[p] = "done" /\ lock # p)

\* A direction_output has returned the lock after its output transfer failed,
\* while the other caller waits for the lock.
C20_Witness ==
    \E p, q \in Callers :
        /\ p # q
        /\ pc[p] = "done" /\ call[p].op = "direction_output"
        /\ SentFailed(log[p], CMD_SET_IO)
        /\ lock = 0
        /\ pc[q] = "set_lock"

====
